---- MODULE Spec2Model ----
(***************************************************************************)
(* The real-time tracking client of GunrajSingh9/object_tracking:          *)
(*   - useObjectTracker (src/app/hooks/use-object-tracker.ts): the stream  *)
(*     session over one WebSocket, its keepalive timer and FPS accounting; *)
(*   - TrackingCanvas (src/unnamed/part_001): the overlay renderer and its *)
(*     requestAnimationFrame loop;                                         *)
(*   - Home (src/unnamed/part_000): the page that wires the two together.  *)
(* The browser is modelled by what its standards say: a WebSocket's        *)
(* readyState and events, setInterval timers, animation frame callbacks,   *)
(* and React committing a render some time after a state setter was called.*)
(***************************************************************************)
EXTENDS Integers, Sequences, FiniteSets, TLC

VARIABLES
    \* ---- useObjectTracker: React state (use-object-tracker.ts:20-24)
    trackedObjects,     \* TrackedObject[]
    isProcessing,       \* boolean
    isConnected,        \* boolean
    fps,                \* number
    error,              \* string | null ("null" stands for null)
    objsStale,          \* setTrackedObjects was called since React last committed
    \* ---- useObjectTracker: refs (use-object-tracker.ts:26-29)
    wsRef,              \* 0 = null, else the index of a socket in sockets
    frameCountRef,      \* results counted in the current FPS window
    lastTimeRef,        \* start of the current FPS window (ms)
    pingIntervalRef,    \* 0 = null, else the socket whose onopen created the timer
    \* ---- the browser
    sockets,            \* every WebSocket constructed so far, in creation order
    sent,               \* what ws.send() has transmitted, in transmission order
    now,                \* Date.now() (ms)
    wsUrlOk,            \* whether new WebSocket(config.wsUrl) succeeds
    \* ---- Home (part_000) and TrackingCanvas (part_001)
    activeTab,          \* "upload" | "live"
    view,               \* what React last committed: whether the overlay is
                        \* mounted, and its props isLive and trackedObjects
    videoSize,          \* <<video.videoWidth, video.videoHeight>>
    playback,           \* the video element: "paused", "playing" or "ended"
    frameIntervalRef,   \* "null", or what became of the sampling interval whose
                        \* id it holds: "active" or "cleared"
    intervals,          \* the number of sampling intervals that are active
    canvasSize,         \* <<canvas.width, canvas.height>>
    drawn,              \* the boxes on the canvas since it was last cleared
    rafQueue,           \* the pending requestAnimationFrame callbacks
    animSet,            \* animationRef.current is set
    \* ---- LiveStreamCapture (live-stream-capture.tsx)
    capture,            \* its state isStreaming and error, whether streamRef holds
                        \* a stream, and the getUserMedia promises and restart
                        \* timeouts that are pending
    \* ---- history of the run, read by the properties only
    redraw,             \* <<canvas.width, canvas.height>> when the latest redraw began
    starts,             \* number of startTracking() calls
    calls,              \* number of sendFrame() calls
    dropped,            \* ordinals of the sendFrame() calls made while not Open
    stopped,            \* sockets that a stopTracking() call closed
    lastArrival,        \* Date.now() of the latest results message (or of startTracking)
    evenGap,            \* the results of the current window (just closed, when the
                        \* counter is 0) each came SamplePeriodMs after the one before
    last                \* the handler that ran last, with its input

hookVars  == <<trackedObjects, isProcessing, isConnected, fps, error, objsStale>>
refVars   == <<wsRef, frameCountRef, lastTimeRef, pingIntervalRef>>
envVars   == <<sockets, sent, now, wsUrlOk>>
histVars  == <<starts, calls, dropped, stopped, lastArrival, evenGap, last>>
viewVars  == <<activeTab, view, videoSize, playback, canvasSize, drawn, rafQueue,
               animSet, redraw, capture, frameIntervalRef, intervals>>
vars      == <<hookVars, refVars, envVars, histVars, viewVars>>

(* What ws.onmessage may write.                                            *)
msgVars   == <<trackedObjects, objsStale, fps, error, frameCountRef, lastTimeRef,
               lastArrival, evenGap>>

-----------------------------------------------------------------------------
(* Bounds of the exploration.                                              *)
MaxStarts  == 2      \* startTracking() calls
MaxCalls   == 2      \* sendFrame() calls
MaxSent    == 2      \* transmissions
MaxResults == 2      \* results messages counted in one FPS window
MaxNow     == 1000   \* the clock stops advancing here (ms)
MaxWindow  == 11     \* results messages counted in one FPS window of FpsSpec
MaxPeriods == 12     \* sample periods that pass in FpsSpec
MaxRaf     == 3      \* pending animation frame callbacks

(* Program constants.                                                      *)
FpsWindowMs == 1000     \* use-object-tracker.ts:71
SamplePeriodMs == 100   \* part_000:79, the frame sampler's period

Steps == {1000}      \* how far the clock advances in one step of Spec

-----------------------------------------------------------------------------
(* Data.                                                                   *)
ObjA == [id |-> 1, bbox |-> <<100, 50, 200, 150>>]
ObjB == [id |-> 2, bbox |-> <<0, 0, 640, 480>>]
ObjLists == {<<>>, <<ObjA>>, <<ObjA, ObjB>>}

ConnectionError == "Connection error. Please check your network."
CreateError     == "Failed to connect to tracking server"

(* event.data of a message event. parses = FALSE: JSON.parse (or reading a  *)
(* property of its result) throws. "undefined" stands for a missing field, *)
(* "" is the empty string.                                                 *)
Msg(parses, type, err, hasObjects, objects) ==
    [parses |-> parses, type |-> type, error |-> err,
     hasObjects |-> hasObjects, objects |-> objects]

Malformed == Msg(FALSE, "undefined", "undefined", FALSE, <<>>)
NoData    == Msg(TRUE, "undefined", "undefined", FALSE, <<>>)

Inbound ==
    {Malformed, NoData}
    \cup {Msg(TRUE, "pong", "undefined", FALSE, <<>>),
          Msg(TRUE, "pong", "undefined", TRUE, <<ObjA>>)}
    \cup {Msg(TRUE, "undefined", "boom", FALSE, <<>>),
          Msg(TRUE, "undefined", "boom", TRUE, <<ObjA, ObjB>>),
          Msg(TRUE, "undefined", "", TRUE, <<ObjA>>)}
    \cup {Msg(TRUE, "undefined", "undefined", TRUE, o) : o \in ObjLists}

(* JavaScript truthiness of data.error and of data.objects.                *)
Truthy(s) == s \notin {"undefined", ""}
IsResults(data) ==
    data.parses /\ data.type # "pong" /\ ~Truthy(data.error) /\ data.hasObjects

Event(op, ws, data) ==
    [op |-> op, ws |-> ws, data |-> data, again |-> FALSE, drew |-> FALSE]

(* Math.round(n / d) for n >= 0, d > 0.                                     *)
Round(n, d) == (2 * n + d) \div (2 * d)

-----------------------------------------------------------------------------
Init ==
    /\ trackedObjects = <<>>
    /\ isProcessing = FALSE
    /\ isConnected = FALSE
    /\ fps = 0
    /\ error = "null"
    /\ objsStale = FALSE
    /\ wsRef = 0
    /\ frameCountRef = 0
    /\ lastTimeRef = 0
    /\ pingIntervalRef = 0
    /\ sockets = <<>>
    /\ sent = <<>>
    /\ now = 0
    /\ wsUrlOk \in BOOLEAN
    /\ starts = 0
    /\ calls = 0
    /\ dropped = {}
    /\ stopped = {}
    /\ lastArrival = 0
    /\ evenGap = TRUE
    /\ last = Event("init", 0, NoData)
    /\ activeTab = "upload"
    /\ view = [mounted |-> FALSE, isLive |-> FALSE, objs |-> <<>>]
    /\ videoSize = <<0, 0>>
    /\ playback = "paused"
    /\ frameIntervalRef = "null"
    /\ intervals = 0
    /\ capture = [isStreaming |-> FALSE, error |-> "null", streamRef |-> FALSE,
                  acquiring |-> 0, timers |-> 0]
    /\ canvasSize = <<0, 0>>
    /\ drawn = <<>>
    /\ rafQueue = <<>>
    /\ animSet = FALSE
    /\ redraw = <<0, 0>>

Sockets == 1 .. Len(sockets)

(* clearInterval(pingIntervalRef.current), guarded by if (pingIntervalRef.current). *)
ClearPing(ss) ==
    IF pingIntervalRef # 0 /\ ss[pingIntervalRef].ping = "active"
    THEN [ss EXCEPT ![pingIntervalRef].ping = "cleared"]
    ELSE ss

(* WebSocket.close(): CONNECTING and OPEN become CLOSING, else nothing.    *)
Close(ss, ws) ==
    IF ss[ws].readyState \in {"CONNECTING", "OPEN"}
    THEN [ss EXCEPT ![ws].readyState = "CLOSING"]
    ELSE ss

-----------------------------------------------------------------------------
(* connectWebSocket: setError(null), then new WebSocket(config.wsUrl); the  *)
(* handlers are attached and wsRef.current = ws. The constructor throwing  *)
(* is caught and reported.                                                 *)
ConnectWebSocket ==
    IF wsUrlOk
    THEN /\ error' = "null"
         /\ sockets' = Append(sockets,
                [readyState |-> "CONNECTING", wasOpen |-> FALSE, ping |-> "none"])
         /\ wsRef' = Len(sockets) + 1
    ELSE /\ error' = CreateError
         /\ UNCHANGED <<sockets, wsRef>>

(* What startTracking() does to the session: it resets the FPS accounting *)
(* and connects.                                                           *)
Started ==
    /\ frameCountRef' = 0
    /\ lastTimeRef' = now
    /\ lastArrival' = now
    /\ evenGap' = TRUE
    /\ ConnectWebSocket
    /\ starts' = starts + 1
    /\ UNCHANGED <<trackedObjects, objsStale, isProcessing, isConnected, fps,
                   pingIntervalRef, sent, now, wsUrlOk, calls, dropped, stopped>>

(* startTracking(), called on its own.                                     *)
StartTracking ==
    /\ Started
    /\ last' = Event("startTracking", 0, NoData)
    /\ UNCHANGED viewVars

(* ws.onopen of socket ws: the open event of a CONNECTING socket.          *)
WsOpen(ws) ==
    /\ sockets[ws].readyState = "CONNECTING"
    /\ sockets' = [sockets EXCEPT ![ws] =
            [readyState |-> "OPEN", wasOpen |-> TRUE, ping |-> "active"]]
    /\ isConnected' = TRUE
    /\ isProcessing' = TRUE
    /\ pingIntervalRef' = ws
    /\ last' = Event("open", ws, NoData)
    /\ UNCHANGED viewVars
    /\ UNCHANGED <<trackedObjects, objsStale, fps, error, wsRef, frameCountRef,
                   lastTimeRef,
                   sent, now, wsUrlOk, starts, calls, dropped, stopped, lastArrival, evenGap>>

(* The FPS rounded down instead of to the nearest integer.                 *)
FpsOfFloor(count, delta) == (count * 1000) \div delta

(* The FPS written by setFps at a window's end.                            *)
FpsOf(count, delta) == Round(count * 1000, delta)

(* The objects branch appending the message's objects to the snapshot.     *)
OnResultsMerge(data) ==
    /\ trackedObjects' = trackedObjects \o data.objects
    /\ objsStale' = TRUE
    /\ frameCountRef' = frameCountRef + 1
    /\ lastArrival' = now
    /\ UNCHANGED <<fps, lastTimeRef, evenGap, error>>

(* The objects branch of ws.onmessage: replace the snapshot, count the     *)
(* message, and close the FPS window when it is at least 1000 ms old.      *)
OnResults(data) ==
    LET count == frameCountRef + 1
        delta == now - lastTimeRef
    IN  /\ trackedObjects' = data.objects
        /\ objsStale' = TRUE
        /\ IF delta >= FpsWindowMs
           THEN /\ fps' = FpsOf(count, delta)
                /\ frameCountRef' = 0
                /\ lastTimeRef' = now
           ELSE /\ frameCountRef' = count
                /\ UNCHANGED <<fps, lastTimeRef>>
        /\ lastArrival' = now
        /\ evenGap' = ((frameCountRef = 0 \/ evenGap)
                            /\ now - lastArrival = SamplePeriodMs)
        /\ UNCHANGED error

(* ws.onmessage whose error branch lacks its return and falls through.    *)
OnMessageNoReturn(data) ==
    IF ~data.parses \/ data.type = "pong"
    THEN UNCHANGED msgVars
    ELSE IF data.hasObjects
    THEN /\ trackedObjects' = data.objects
         /\ objsStale' = TRUE
         /\ error' = IF Truthy(data.error) THEN data.error ELSE error
         /\ frameCountRef' = frameCountRef + 1
         /\ UNCHANGED <<fps, lastTimeRef, lastArrival, evenGap>>
    ELSE /\ error' = IF Truthy(data.error) THEN data.error ELSE error
         /\ UNCHANGED <<trackedObjects, objsStale, fps, frameCountRef, lastTimeRef,
                        lastArrival, evenGap>>

(* ws.onmessage whose catch reports the payload it could not parse.        *)
OnMessageSurfaces(data) ==
    IF ~data.parses
    THEN /\ error' = "Error parsing message"
         /\ UNCHANGED <<trackedObjects, objsStale, fps, frameCountRef, lastTimeRef,
                        lastArrival, evenGap>>
    ELSE IF data.type = "pong"
    THEN UNCHANGED msgVars
    ELSE IF Truthy(data.error)
    THEN /\ error' = data.error
         /\ UNCHANGED <<trackedObjects, objsStale, fps, frameCountRef, lastTimeRef,
                        lastArrival, evenGap>>
    ELSE IF data.hasObjects
    THEN OnResults(data)
    ELSE UNCHANGED msgVars

(* ws.onmessage without the test for a pong.                               *)
OnMessagePongCounts(data) ==
    IF ~data.parses
    THEN UNCHANGED msgVars
    ELSE IF Truthy(data.error)
    THEN /\ error' = data.error
         /\ UNCHANGED <<trackedObjects, objsStale, fps, frameCountRef, lastTimeRef,
                        lastArrival, evenGap>>
    ELSE IF data.hasObjects
    THEN OnResults(data)
    ELSE UNCHANGED msgVars

(* ws.onmessage: parse, then the first matching branch.                    *)
OnMessage(data) ==
    IF ~data.parses \/ data.type = "pong"
    THEN UNCHANGED msgVars
    ELSE IF Truthy(data.error)
    THEN /\ error' = data.error
         /\ UNCHANGED <<trackedObjects, objsStale, fps, frameCountRef, lastTimeRef,
                        lastArrival, evenGap>>
    ELSE IF data.hasObjects
    THEN OnResults(data)
    ELSE UNCHANGED msgVars

(* A socket on which the service's data can still arrive.                  *)
Receiving(ws) ==
    \/ sockets[ws].readyState = "OPEN"
    \/ sockets[ws].readyState = "CLOSING" /\ sockets[ws].wasOpen

(* Data arrives on socket ws. The browser fires the message event only     *)
(* while readyState is OPEN and discards the data otherwise.               *)
WsReceive(ws, data) ==
    /\ Receiving(ws)
    /\ IF sockets[ws].readyState = "OPEN"
       THEN OnMessage(data)
       ELSE UNCHANGED msgVars
    /\ last' = Event("message", ws, data)
    /\ UNCHANGED viewVars
    /\ UNCHANGED <<isProcessing, isConnected, wsRef, pingIntervalRef,
                   sockets, sent, now, wsUrlOk, starts, calls, dropped, stopped>>

(* ws.onclose that connects again.                                         *)
OnCloseRetry(ws) ==
    /\ isConnected' = FALSE
    /\ isProcessing' = FALSE
    /\ sockets' = Append(ClearPing([sockets EXCEPT ![ws].readyState = "CLOSED"]),
                         [readyState |-> "CONNECTING", wasOpen |-> FALSE, ping |-> "none"])

(* ws.onclose of socket ws.                                                *)
OnClose(ws) ==
    /\ isConnected' = FALSE
    /\ isProcessing' = FALSE
    /\ sockets' = ClearPing([sockets EXCEPT ![ws].readyState = "CLOSED"])

(* The connection of socket ws closes cleanly: the close event alone.      *)
WsClose(ws) ==
    /\ Receiving(ws)
    /\ OnClose(ws)
    /\ last' = Event("close", ws, NoData)
    /\ UNCHANGED viewVars
    /\ UNCHANGED <<trackedObjects, objsStale, fps, error, refVars,
                   sent, now, wsUrlOk, starts, calls, dropped, stopped, lastArrival, evenGap>>

(* The connection of socket ws fails (it could not be established, it      *)
(* dropped, or close() was called before it opened): the browser fires the *)
(* error event and then the close event in one task, so ws.onerror and     *)
(* ws.onclose run back to back.                                            *)
WsError(ws) ==
    /\ sockets[ws].readyState \in {"CONNECTING", "OPEN", "CLOSING"}
    /\ error' = ConnectionError
    /\ OnClose(ws)
    /\ last' = Event("error", ws, NoData)
    /\ UNCHANGED viewVars
    /\ UNCHANGED <<trackedObjects, objsStale, fps, refVars,
                   sent, now, wsUrlOk, starts, calls, dropped, stopped, lastArrival, evenGap>>

(* A keepalive tick that sends on whatever socket the session holds.       *)
PingTickOnRef(ws) ==
    /\ sockets[ws].ping = "active"
    /\ sent' = IF wsRef # 0 /\ sockets[wsRef].readyState = "OPEN"
               THEN Append(sent, [ws |-> wsRef, type |-> "ping", image |-> "",
                                  timestamp |-> 0, frame_id |-> 0, call |-> 0])
               ELSE sent
    /\ last' = Event("ping", ws, NoData)
    /\ UNCHANGED viewVars
    /\ UNCHANGED <<hookVars, refVars, sockets, now, wsUrlOk,
                   starts, calls, dropped, stopped, lastArrival, evenGap>>

(* One firing of the keepalive interval that ws.onopen of socket ws started. *)
PingTick(ws) ==
    /\ sockets[ws].ping = "active"
    /\ sent' = IF sockets[ws].readyState = "OPEN"
               THEN Append(sent, [ws |-> ws, type |-> "ping", image |-> "",
                                  timestamp |-> 0, frame_id |-> 0, call |-> 0])
               ELSE sent
    /\ last' = Event("ping", ws, NoData)
    /\ UNCHANGED viewVars
    /\ UNCHANGED <<hookVars, refVars, sockets, now, wsUrlOk,
                   starts, calls, dropped, stopped, lastArrival, evenGap>>

(* sendFrame that only looks whether it holds a socket.                     *)
WsRefSet == wsRef # 0

(* The guard of sendFrame: wsRef.current?.readyState === WebSocket.OPEN.   *)
WsRefOpen == wsRef # 0 /\ sockets[wsRef].readyState = "OPEN"

(* What the claims call "the session's connection is Open".                *)
SessionOpen == wsRef \in Sockets /\ sockets[wsRef].readyState = "OPEN"

(* sendFrame that counts the frames it transmits in frameCountRef.         *)
SendFrameCounts(frameData) ==
    /\ calls' = calls + 1
    /\ sent' = IF WsRefOpen
               THEN Append(sent, [ws |-> wsRef, type |-> "frame", image |-> frameData,
                                  timestamp |-> now, frame_id |-> frameCountRef,
                                  call |-> calls + 1])
               ELSE sent
    /\ frameCountRef' = IF WsRefOpen THEN frameCountRef + 1 ELSE frameCountRef
    /\ dropped' = IF SessionOpen THEN dropped ELSE dropped \cup {calls + 1}
    /\ last' = Event("sendFrame", wsRef, NoData)
    /\ UNCHANGED viewVars
    /\ UNCHANGED <<hookVars, wsRef, lastTimeRef, pingIntervalRef, sockets, now, wsUrlOk,
                   starts, stopped, lastArrival, evenGap>>

(* sendFrame(frameData): the call numbered calls + 1.                      *)
SendFrame(frameData) ==
    /\ calls' = calls + 1
    /\ sent' = IF WsRefOpen
               THEN Append(sent, [ws |-> wsRef, type |-> "frame", image |-> frameData,
                                  timestamp |-> now, frame_id |-> frameCountRef,
                                  call |-> calls + 1])
               ELSE sent
    /\ dropped' = IF SessionOpen THEN dropped ELSE dropped \cup {calls + 1}
    /\ last' = Event("sendFrame", wsRef, NoData)
    /\ UNCHANGED viewVars
    /\ UNCHANGED <<hookVars, refVars, sockets, now, wsUrlOk, starts, stopped, lastArrival, evenGap>>

(* stopTracking that forgets the socket without closing it.               *)
StopTrackingNoClose ==
    /\ isProcessing' = FALSE
    /\ trackedObjects' = <<>>
    /\ objsStale' = TRUE
    /\ fps' = 0
    /\ sockets' = ClearPing(sockets)
    /\ wsRef' = 0
    /\ stopped' = IF wsRef # 0 THEN stopped \cup {wsRef} ELSE stopped
    /\ last' = [Event("stopTracking", wsRef, NoData)
                    EXCEPT !.again = (last.op = "stopTracking")]
    /\ UNCHANGED viewVars
    /\ UNCHANGED <<isConnected, error, frameCountRef, lastTimeRef, pingIntervalRef,
                   sent, now, wsUrlOk, starts, calls, dropped, lastArrival, evenGap>>

(* stopTracking that reports an error when there is no socket to close.    *)
StopTrackingComplains ==
    /\ isProcessing' = FALSE
    /\ trackedObjects' = <<>>
    /\ objsStale' = TRUE
    /\ fps' = 0
    /\ sockets' = IF wsRef # 0
                  THEN Close(ClearPing(sockets), wsRef)
                  ELSE ClearPing(sockets)
    /\ error' = IF wsRef # 0 THEN error ELSE "Not connected"
    /\ wsRef' = 0
    /\ stopped' = IF wsRef # 0 THEN stopped \cup {wsRef} ELSE stopped
    /\ last' = [Event("stopTracking", wsRef, NoData)
                    EXCEPT !.again = (last.op = "stopTracking")]
    /\ UNCHANGED viewVars
    /\ UNCHANGED <<isConnected, frameCountRef, lastTimeRef, pingIntervalRef,
                   sent, now, wsUrlOk, starts, calls, dropped, lastArrival, evenGap>>

(* What stopTracking() does to the session.                                *)
Stopped ==
    /\ isProcessing' = FALSE
    /\ trackedObjects' = <<>>
    /\ objsStale' = TRUE
    /\ fps' = 0
    /\ sockets' = IF wsRef # 0
                  THEN Close(ClearPing(sockets), wsRef)
                  ELSE ClearPing(sockets)
    /\ wsRef' = 0
    /\ stopped' = IF wsRef # 0 THEN stopped \cup {wsRef} ELSE stopped
    /\ UNCHANGED <<isConnected, error, frameCountRef, lastTimeRef, pingIntervalRef,
                   sent, now, wsUrlOk, starts, calls, dropped, lastArrival, evenGap>>

(* stopTracking(), called on its own.                                      *)
StopTracking ==
    /\ Stopped
    /\ last' = [Event("stopTracking", wsRef, NoData)
                    EXCEPT !.again = (last.op = "stopTracking")]
    /\ UNCHANGED viewVars

(* Time passes.                                                            *)
Advance(d) ==
    /\ now' = now + d
    /\ UNCHANGED <<hookVars, refVars, sockets, sent, wsUrlOk, histVars, viewVars>>

Frames == {"jpeg1"}

-----------------------------------------------------------------------------
(* TrackingCanvas and the page around it.                                  *)

sessionVars == <<hookVars, refVars, envVars, starts, calls, dropped, stopped,
                 lastArrival, evenGap>>

(* The sizes a video source takes: none yet, 640x480, 1280x960.            *)
VideoSizes == {<<0, 0>>, <<640, 480>>, <<1280, 960>>}

(* A canvas element is created 300 wide and 150 high.                      *)
NewCanvas == <<300, 150>>

(* draw that leaves the canvas at the size it has.                         *)
ResizedNot(c, v) == c

(* draw, lines 49-55: the canvas takes the video's native size.            *)
Resized(c, v) == IF c # v THEN v ELSE c

(* A divisor taken as it is.                                               *)
DivisorRaw(v) == v

(* (video.videoWidth || 1): what draw divides by.                          *)
Divisor(v) == IF v = 0 THEN 1 ELSE v

(* scaleX and scaleY as fractions n / d, for canvas size c and video size v. *)
ScaleOf(c, v) == <<[n |-> c[1], d |-> Divisor(v[1])], [n |-> c[2], d |-> Divisor(v[2])]>>

(* x * scale, as a fraction.                                               *)
Times(x, scale) == [n |-> x * scale.n, d |-> scale.d]

(* The rectangle drawn for obj: sx1, sy1, sx2, sy2.                        *)
Box(obj, scale) ==
    [obj |-> obj,
     at  |-> <<Times(obj.bbox[1], scale[1]), Times(obj.bbox[2], scale[2]),
               Times(obj.bbox[3], scale[1]), Times(obj.bbox[4], scale[2])>>]

(* A cleanup that cancels nothing.                                         *)
CancelNot(q) == q

(* cancelAnimationFrame(animationRef.current), guarded by if (animationRef.current): *)
(* the callback whose id the ref holds, if it is still pending, is removed. *)
Cancel(q) == IF animSet THEN SelectSeq(q, LAMBDA cb : ~cb.held) ELSE q

(* draw() that does not ask for the next animation frame.                  *)
DrawOnce(objs, c, q) ==
    LET size  == Resized(c, videoSize')
        scale == ScaleOf(size, videoSize')
    IN  /\ canvasSize' = size
        /\ drawn' = [i \in 1 .. Len(objs) |-> Box(objs[i], scale)]
        /\ rafQueue' = q
        /\ animSet' = animSet
        /\ redraw' = c

(* draw() that asks for the next animation frame without keeping its id.   *)
DrawForgetsId(objs, c, q) ==
    LET size  == Resized(c, videoSize')
        scale == ScaleOf(size, videoSize')
    IN  /\ canvasSize' = size
        /\ drawn' = [i \in 1 .. Len(objs) |-> Box(objs[i], scale)]
        /\ rafQueue' = Append(q, [objs |-> objs, held |-> FALSE, alive |-> TRUE])
        /\ animSet' = animSet
        /\ redraw' = c

(* draw() of the closure that captured objs, on a canvas of size c, with q *)
(* the callbacks pending besides: resize, clear, scale, one box per        *)
(* object, and animationRef.current = requestAnimationFrame(draw).         *)
Draw(objs, c, q) ==
    LET size  == Resized(c, videoSize')
        scale == ScaleOf(size, videoSize')
    IN  /\ canvasSize' = size
        /\ drawn' = [i \in 1 .. Len(objs) |-> Box(objs[i], scale)]
        /\ rafQueue' = Append([j \in 1 .. Len(q) |-> [q[j] EXCEPT !.held = FALSE]],
                              [objs |-> objs, held |-> TRUE, alive |-> TRUE])
        /\ animSet' = TRUE
        /\ redraw' = c

(* The callbacks of an overlay that was unmounted.                         *)
Orphaned(q) == [j \in 1 .. Len(q) |-> [q[j] EXCEPT !.alive = FALSE]]

(* A cleanup of the sampling effect that clears nothing.                   *)
ClearFrameIntervalNot == intervals

(* The cleanup of Home's sampling effect (part_000:82-86): the intervals   *)
(* left active by clearInterval(frameIntervalRef.current).                 *)
ClearFrameInterval ==
    IF frameIntervalRef = "active" THEN intervals - 1 ELSE intervals

(* React commits a render of Home: the overlay and the video are mounted   *)
(* while activeTab is "live", and TrackingCanvas's effect (lines 165-175)  *)
(* runs again when draw (that is, trackedObjects) or isLive changed: its   *)
(* cleanup cancels the pending callback, then draw() is called if isLive.  *)
(* A video element is paused when it is created. LiveStreamCapture is      *)
(* mounted with the live tab as well: unmounting it drops its state, and   *)
(* its cleanup stops the tracks of the stream it holds.                    *)
(* Home's sampling effect (part_000:75-87) runs again when isTracking or   *)
(* activeTab changed: its cleanup clears the interval in frameIntervalRef, *)
(* then a new interval is installed if isTracking and the tab is "live".   *)
Commit ==
    LET mounts == (activeTab = "live")
    IN  /\ objsStale \/ view.isLive # isProcessing \/ view.mounted # mounts
        /\ view' = [mounted |-> mounts, isLive |-> isProcessing, objs |-> trackedObjects]
        /\ objsStale' = FALSE
        /\ IF mounts /\ view.mounted
           THEN /\ UNCHANGED videoSize
                /\ IF isProcessing
                   THEN Draw(trackedObjects, canvasSize, Cancel(rafQueue))
                   ELSE /\ rafQueue' = Cancel(rafQueue)
                        /\ UNCHANGED <<canvasSize, drawn, animSet, redraw>>
           ELSE IF mounts
           THEN \* mounted now: new elements, new refs
                /\ videoSize' = <<0, 0>>
                /\ IF isProcessing
                   THEN Draw(trackedObjects, NewCanvas, rafQueue)
                   ELSE /\ canvasSize' = NewCanvas
                        /\ drawn' = <<>>
                        /\ animSet' = FALSE
                        /\ UNCHANGED <<rafQueue, redraw>>
           ELSE IF view.mounted
           THEN \* unmounted now: the cleanup runs, the elements are gone
                /\ rafQueue' = Orphaned(Cancel(rafQueue))
                /\ videoSize' = <<0, 0>>
                /\ canvasSize' = <<0, 0>>
                /\ drawn' = <<>>
                /\ animSet' = FALSE
                /\ UNCHANGED redraw
           ELSE UNCHANGED <<videoSize, canvasSize, drawn, rafQueue, animSet, redraw>>
        /\ playback' = IF mounts /\ view.mounted THEN playback ELSE "paused"
        /\ last' = [Event("render", 0, NoData) EXCEPT !.drew = (mounts /\ isProcessing)]
        /\ UNCHANGED <<trackedObjects, isProcessing, isConnected, fps, error,
                       refVars, envVars, starts, calls, dropped, stopped,
                       lastArrival, evenGap, activeTab>>
        /\ IF view.isLive # isProcessing \/ view.mounted # mounts
           THEN IF isProcessing /\ mounts
                THEN /\ intervals' = ClearFrameInterval + 1
                     /\ frameIntervalRef' = "active"
                ELSE /\ intervals' = ClearFrameInterval
                     /\ frameIntervalRef' =
                            IF frameIntervalRef = "null" THEN "null" ELSE "cleared"
           ELSE UNCHANGED <<frameIntervalRef, intervals>>
        /\ capture' = IF view.mounted /\ ~mounts
                      THEN [capture EXCEPT !.isStreaming = FALSE, !.error = "null",
                                           !.streamRef = FALSE]
                      ELSE capture

(* The display refreshes: the oldest pending callback runs. A callback of  *)
(* an unmounted overlay finds canvasRef.current null and returns.          *)
RafFire ==
    /\ rafQueue # <<>>
    /\ UNCHANGED videoSize
    /\ IF Head(rafQueue).alive /\ view.mounted
       THEN Draw(Head(rafQueue).objs, canvasSize, Tail(rafQueue))
       ELSE /\ rafQueue' = Tail(rafQueue)
            /\ UNCHANGED <<canvasSize, drawn, animSet, redraw>>
    /\ last' = [Event("frame", 0, NoData)
                    EXCEPT !.drew = (Head(rafQueue).alive /\ view.mounted)]
    /\ UNCHANGED <<sessionVars, activeTab, view, playback, capture, frameIntervalRef,
                   intervals>>

(* The user picks the other tab (setActiveTab).                            *)
SetTab(tab) ==
    /\ tab # activeTab
    /\ activeTab' = tab
    /\ last' = Event("tab", 0, NoData)
    /\ UNCHANGED <<sessionVars, view, videoSize, playback, canvasSize, drawn, rafQueue,
                   animSet, redraw, capture, frameIntervalRef, intervals>>

(* The mounted video's source changes its native size.                     *)
VideoResize(size) ==
    /\ view.mounted
    /\ size # videoSize
    /\ videoSize' = size
    /\ last' = Event("video", 0, NoData)
    /\ UNCHANGED <<sessionVars, activeTab, view, playback, canvasSize, drawn, rafQueue,
                   animSet, redraw, capture, frameIntervalRef, intervals>>

(* The mounted video starts to play, is paused, or reaches its end.        *)
VideoPlayback(p) ==
    /\ view.mounted
    /\ p # playback
    /\ playback' = p
    /\ last' = Event("playback", 0, NoData)
    /\ UNCHANGED <<sessionVars, activeTab, view, videoSize, canvasSize, drawn, rafQueue,
                   animSet, redraw, capture, frameIntervalRef, intervals>>

-----------------------------------------------------------------------------
(* LiveStreamCapture: the camera controls of the live tab.                 *)

CameraError ==
    "Could not access camera. Please ensure you have granted camera permissions."

pageVars == <<activeTab, view, videoSize, playback, canvasSize, drawn, rafQueue,
              animSet, redraw, frameIntervalRef, intervals>>

(* startStream up to its await: setError(null) and getUserMedia is asked.  *)
Acquire(c) == [c EXCEPT !.error = "null", !.acquiring = @ + 1]

(* startStream whose catch asks for the camera again after a while.        *)
DeniedRetries(c) == [c EXCEPT !.acquiring = @ - 1, !.error = CameraError, !.timers = @ + 1]

(* The catch of startStream.                                               *)
Denied(c) == [c EXCEPT !.acquiring = @ - 1, !.error = CameraError]

(* The user presses Start Camera, shown while isStreaming is false.        *)
StartStream ==
    /\ view.mounted
    /\ ~capture.isStreaming
    /\ capture' = Acquire(capture)
    /\ last' = Event("startStream", 0, NoData)
    /\ UNCHANGED <<sessionVars, pageVars>>

(* getUserMedia resolves: startStream keeps the stream, shows it in the    *)
(* video, sets isStreaming and calls onStreamStart, which is startTracking. *)
GetUserMediaResolves ==
    /\ capture.acquiring > 0
    /\ capture' = [capture EXCEPT !.acquiring = @ - 1, !.streamRef = TRUE,
                                  !.isStreaming = TRUE]
    /\ Started
    /\ last' = Event("granted", 0, NoData)
    /\ UNCHANGED pageVars

(* getUserMedia rejects: the catch of startStream sets the error.          *)
GetUserMediaRejects ==
    /\ capture.acquiring > 0
    /\ capture' = Denied(capture)
    /\ last' = Event("denied", 0, NoData)
    /\ UNCHANGED <<sessionVars, pageVars>>

(* What stopStream does to the component.                                  *)
Released(c) == [c EXCEPT !.streamRef = FALSE, !.isStreaming = FALSE]

(* The user presses Stop, shown while isStreaming is true: stopStream      *)
(* stops the tracks and calls onStreamStop, which is stopTracking.         *)
StopStream ==
    /\ view.mounted
    /\ capture.isStreaming
    /\ capture' = Released(capture)
    /\ Stopped
    /\ last' = Event("stopStream", wsRef, NoData)
    /\ UNCHANGED pageVars

(* The user presses Restart: stopStream(), then setTimeout(startStream, 100). *)
RestartStream ==
    /\ view.mounted
    /\ capture.isStreaming
    /\ capture' = [Released(capture) EXCEPT !.timers = @ + 1]
    /\ Stopped
    /\ last' = Event("restartStream", wsRef, NoData)
    /\ UNCHANGED pageVars

(* A timeout of restartStream fires: startStream().                        *)
RestartTimer ==
    /\ capture.timers > 0
    /\ capture' = Acquire([capture EXCEPT !.timers = @ - 1])
    /\ last' = Event("restartTimer", 0, NoData)
    /\ UNCHANGED <<sessionVars, pageVars>>

(* An interval that calls captureAndSendFrame is active (part_000:79).     *)
Sampling == intervals > 0

(* A sampler that takes the video to be playing always.                    *)
VideoIdleNever == FALSE

(* video.paused || video.ended.                                            *)
VideoIdle == playback \in {"paused", "ended"}

(* One firing of the sampling interval: captureAndSendFrame(). It returns  *)
(* when the video or the capture canvas is not mounted, when the video is  *)
(* paused or ended, and when the canvas gives no 2d context (ctxOk false); *)
(* else it encodes the video's picture and hands it to sendFrame.          *)
CaptureAndSendFrame(ctxOk, frameData) ==
    /\ Sampling
    /\ IF ~view.mounted \/ VideoIdle \/ ~ctxOk
       THEN /\ last' = Event("tick", 0, NoData)
            /\ UNCHANGED <<sessionVars, viewVars>>
       ELSE SendFrame(frameData)

-----------------------------------------------------------------------------
(* The session's life cycle: the collaborator's start and stop, the        *)
(* transport's events, the clock, and inbound data of two kinds: a results *)
(* message and an error message.                                           *)
LifeInbound == {Msg(TRUE, "undefined", "undefined", TRUE, <<ObjA>>),
                Msg(TRUE, "undefined", "boom", FALSE, <<>>)}

Next ==
    \/ starts < MaxStarts /\ StartTracking
    \/ StopTracking
    \/ \E ws \in Sockets : WsOpen(ws)
    \/ \E ws \in Sockets, data \in LifeInbound :
            /\ IsResults(data) => frameCountRef < MaxResults
            /\ WsReceive(ws, data)
    \/ \E ws \in Sockets : WsClose(ws)
    \/ \E ws \in Sockets : WsError(ws)
    \/ \E d \in Steps : now + d <= MaxNow /\ Advance(d)

Spec == Init /\ [][Next]_vars

(* Inbound data of every shape, on the socket of one session.              *)
MsgNext ==
    \/ starts < 1 /\ StartTracking
    \/ StopTracking
    \/ \E ws \in Sockets : WsOpen(ws)
    \/ \E ws \in Sockets, data \in Inbound :
            /\ IsResults(data) => frameCountRef < MaxResults
            /\ WsReceive(ws, data)
    \/ \E ws \in Sockets : WsClose(ws)
    \/ \E ws \in Sockets : WsError(ws)
    \/ \E d \in Steps : now + d <= MaxNow /\ Advance(d)

MsgSpec == Init /\ [][MsgNext]_vars

(* The outbound side: the life cycle again, with the frame sampler calling *)
(* sendFrame and the keepalive timers firing.  SendInbound is the results  *)
(* message the FPS accounting below feeds on.                              *)
SendInbound == {Msg(TRUE, "undefined", "undefined", TRUE, <<ObjA>>)}

SendNext ==
    \/ starts < MaxStarts /\ StartTracking
    \/ StopTracking
    \/ \E f \in Frames : calls < MaxCalls /\ Len(sent) < MaxSent /\ SendFrame(f)
    \/ \E ws \in Sockets : WsOpen(ws)
    \/ \E ws \in Sockets : WsClose(ws)
    \/ \E ws \in Sockets : WsError(ws)
    \/ \E ws \in Sockets : Len(sent) < MaxSent /\ PingTick(ws)

SendSpec == Init /\ [][SendNext]_vars

(* Every handler of the session next to the collaborator's start and stop: *)
(* the transport's open, message, error and close events and the keepalive *)
(* timer. Inbound data is an error message and the reply to a ping.        *)
HandlerInbound == {Msg(TRUE, "undefined", "boom", FALSE, <<>>), Msg(TRUE, "pong", "undefined", FALSE, <<>>)}

HandlerNext ==
    \/ starts < MaxStarts /\ StartTracking
    \/ StopTracking
    \/ \E ws \in Sockets : WsOpen(ws)
    \/ \E ws \in Sockets, data \in HandlerInbound : WsReceive(ws, data)
    \/ \E ws \in Sockets : WsClose(ws)
    \/ \E ws \in Sockets : WsError(ws)
    \/ \E ws \in Sockets : Len(sent) < MaxSent /\ PingTick(ws)

HandlerSpec == Init /\ [][HandlerNext]_vars

(* Frames going out while results come in: one session whose sampler calls *)
(* sendFrame as results arrive and the FPS window closes.                  *)
SeqNext ==
    \/ starts < 1 /\ StartTracking
    \/ \E ws \in Sockets : WsOpen(ws)
    \/ \E ws \in Sockets, data \in SendInbound :
            /\ frameCountRef < MaxResults
            /\ WsReceive(ws, data)
    \/ \E f \in Frames : calls < MaxCalls /\ Len(sent) < MaxSent /\ SendFrame(f)
    \/ \E ws \in Sockets : WsClose(ws)
    \/ \E d \in Steps : now + d <= MaxNow /\ Advance(d)

SeqSpec == Init /\ [][SeqNext]_vars

(* The frame sampler: one session on the live tab, whose video plays,      *)
(* pauses and ends while the sampling interval fires.                      *)
SampleNext ==
    \/ starts < 1 /\ StartTracking
    \/ StopTracking
    \/ \E ws \in Sockets : WsOpen(ws)
    \/ \E ws \in Sockets : WsError(ws)
    \/ Commit
    \/ \E tab \in {"upload", "live"} : SetTab(tab)
    \/ \E p \in {"paused", "playing", "ended"} : VideoPlayback(p)
    \/ \E ctxOk \in BOOLEAN, f \in Frames :
            /\ calls < MaxCalls
            /\ Len(sent) < MaxSent
            /\ CaptureAndSendFrame(ctxOk, f)

SampleSpec == Init /\ [][SampleNext]_vars

(* The camera controls: the user opens the live tab and starts, stops and  *)
(* restarts the camera, which is granted or denied each time it is asked.  *)
CaptureNext ==
    \/ SetTab("live")
    \/ Commit
    \/ capture.acquiring + starts < MaxStarts /\ StartStream
    \/ GetUserMediaResolves
    \/ GetUserMediaRejects
    \/ StopStream
    \/ capture.acquiring + capture.timers + starts < MaxStarts /\ RestartStream
    \/ RestartTimer
    \/ \E ws \in Sockets : WsOpen(ws)
    \/ \E ws \in Sockets : WsClose(ws)

CaptureSpec == Init /\ [][CaptureNext]_vars

(* Winding down: the life cycle with results arriving, where the close    *)
(* event of a socket that stopTracking closed is delivered in the end.     *)
DrainNext ==
    \/ starts < MaxStarts /\ StartTracking
    \/ StopTracking
    \/ \E ws \in Sockets : WsOpen(ws)
    \/ \E ws \in Sockets, data \in SendInbound :
            /\ frameCountRef < MaxResults
            /\ WsReceive(ws, data)
    \/ \E ws \in Sockets : WsClose(ws)
    \/ \E ws \in Sockets : WsError(ws)

DrainSpec ==
    /\ Init
    /\ [][DrainNext]_vars
    /\ WF_vars(\E ws \in Sockets : ws \in stopped /\ WsClose(ws))

(* FPS accounting: one session, results arriving while the clock advances  *)
(* by the sampling period.                                                 *)
FpsNext ==
    \/ starts < 1 /\ StartTracking
    \/ \E ws \in Sockets : WsOpen(ws)
    \/ \E ws \in Sockets, data \in SendInbound :
            /\ frameCountRef < MaxWindow
            /\ WsReceive(ws, data)
    \/ now + SamplePeriodMs <= MaxPeriods * SamplePeriodMs /\ Advance(SamplePeriodMs)

FpsSpec == Init /\ [][FpsNext]_vars

(* The overlay: one session whose results arrive while React commits, the  *)
(* display refreshes, the video changes size and the user changes tabs.    *)
RenderInbound == {Msg(TRUE, "undefined", "undefined", TRUE, o) : o \in ObjLists}

RenderNext ==
    \/ starts < 1 /\ StartTracking
    \/ StopTracking
    \/ \E ws \in Sockets : WsOpen(ws)
    \/ \E ws \in Sockets, data \in RenderInbound :
            /\ frameCountRef < MaxResults
            /\ WsReceive(ws, data)
    \/ \E ws \in Sockets : WsClose(ws)
    \/ Len(rafQueue) < MaxRaf /\ Commit
    \/ RafFire
    \/ \E tab \in {"upload", "live"} : SetTab(tab)
    \/ \E size \in VideoSizes : VideoResize(size)

RenderSpec == Init /\ [][RenderNext]_vars

-----------------------------------------------------------------------------
(* Properties.                                                             *)

Active(ws) == sockets[ws].readyState \in {"CONNECTING", "OPEN"}

(* C1: a frame handed to sendFrame while the session's connection was not  *)
(* Open is never transmitted, neither at the call nor later.               *)
C1_DroppedFrameNeverSent ==
    \A i \in 1 .. Len(sent) : sent[i].type = "frame" => sent[i].call \notin dropped

(* The first frame was dropped, the second was transmitted on an Open      *)
(* connection.                                                             *)
C1_Witness ==
    /\ 1 \in dropped
    /\ \E i \in 1 .. Len(sent) : sent[i].type = "frame" /\ sent[i].call = 2

(* C2: at most one socket of the session is CONNECTING or OPEN.            *)
C2_AtMostOneActiveSocket ==
    Cardinality({ws \in Sockets : Active(ws)}) <= 1

(* C3: data arriving on a socket that stopTracking closed leaves           *)
(* trackedObjects as it is, and no event of such a socket starts its       *)
(* keepalive timer.                                                        *)
C3_StoppedSocketIsInert ==
    [][\A ws \in Sockets : ws \in stopped =>
          /\ (last'.op = "message" /\ last'.ws = ws)
                => trackedObjects' = trackedObjects
          /\ sockets'[ws].ping = "active" => sockets[ws].ping = "active"]_vars

(* A results message with objects arrived on a socket stopTracking had     *)
(* closed, and the snapshot is still empty.                                *)
C3_Witness ==
    /\ last.op = "message"
    /\ last.ws \in stopped
    /\ IsResults(last.data)
    /\ last.data.objects # <<>>
    /\ trackedObjects = <<>>

(* C5: right after stopTracking the snapshot is empty, fps is 0,           *)
(* isProcessing is false, no keepalive timer is active, and the socket the *)
(* session held is closing or closed and no longer referenced.             *)
C5_AfterStop ==
    last.op = "stopTracking" =>
        /\ trackedObjects = <<>>
        /\ fps = 0
        /\ ~isProcessing
        /\ \A ws \in Sockets : sockets[ws].ping # "active"
        /\ wsRef = 0
        /\ last.ws # 0 => sockets[last.ws].readyState \in {"CLOSING", "CLOSED"}

(* C6: a stopTracking that follows a stopTracking changes nothing, and as  *)
(* long as startTracking was never called the exposed state is the initial *)
(* one, whatever was called.                                               *)
C6_StopIdempotent ==
    /\ [](starts = 0 =>
            /\ trackedObjects = <<>> /\ ~isProcessing /\ ~isConnected
            /\ fps = 0 /\ error = "null" /\ sockets = <<>> /\ wsRef = 0)
    /\ [][(last.op = "stopTracking" /\ last'.op = "stopTracking")
            => UNCHANGED <<hookVars, refVars, sockets, sent>>]_vars

(* stopTracking was called twice in a row on a session that had started.   *)
C6_Witness ==
    last.op = "stopTracking" /\ last.again /\ sockets # <<>>

(* The message event of an Open socket whose data is last'.data.           *)
Delivered ==
    /\ last'.op = "message"
    /\ now' = now
    /\ last'.ws \in Sockets
    /\ sockets[last'.ws].readyState = "OPEN"
    /\ last'.data.parses
    /\ last'.data.type # "pong"

ErrorOnly ==
    /\ error' = last'.data.error
    /\ UNCHANGED <<trackedObjects, objsStale, isProcessing, isConnected, fps,
                   refVars, sockets, sent>>

C7_FpsWindow ==
    [][(Delivered /\ IsResults(last'.data)) =>
         LET count == frameCountRef + 1
             delta == now - lastTimeRef
         IN  /\ IF delta >= 1000
                THEN /\ fps' = Round(count * 1000, delta)
                     /\ frameCountRef' = 0
                     /\ lastTimeRef' = now
                ELSE /\ fps' = fps
                     /\ frameCountRef' = count
                     /\ lastTimeRef' = lastTimeRef
             /\ (evenGap /\ now - lastArrival = 100 /\ count = 10)
                    => (delta = 1000 /\ fps' \in 9 .. 11)]_vars

(* Ten results 100 ms apart have just closed a window: fps reads 10.       *)
C7_Witness ==
    /\ last.op = "message"
    /\ evenGap
    /\ frameCountRef = 0
    /\ lastTimeRef = now
    /\ lastArrival = now
    /\ now >= 1000
    /\ fps = 10

(* React has committed the session's current state.                        *)
Committed ==
    /\ ~objsStale
    /\ view.isLive = isProcessing
    /\ view.mounted = (activeTab = "live")

DrawnObjs == [i \in 1 .. Len(drawn) |-> drawn[i].obj]

Axis(k) == IF k \in {1, 3} THEN 1 ELSE 2

(* C8 as stated: a redraw that begins with a W' x H' surface and a W x H   *)
(* source draws every bbox coordinate x at x * W' / W (y at y * H' / H).   *)
C8_ScaledBySurfaceBefore ==
    (last.drew /\ videoSize[1] # 0 /\ videoSize[2] # 0) =>
        \A i \in 1 .. Len(drawn) : \A k \in 1 .. 4 :
            drawn[i].at[k].n * videoSize[Axis(k)]
                = drawn[i].obj.bbox[k] * redraw[Axis(k)] * drawn[i].at[k].d

(* C8: a redraw first gives the surface the source's native size W x H, so *)
(* the scale it computes, surface over source, is 1 and every bbox is      *)
(* drawn at its own coordinates, whatever size the surface had before.     *)
C8_ScaledBySurfaceAfter ==
    (last.drew /\ videoSize[1] # 0 /\ videoSize[2] # 0) =>
        /\ canvasSize = videoSize
        /\ \A i \in 1 .. Len(drawn) : \A k \in 1 .. 4 :
            /\ drawn[i].at[k].n * videoSize[Axis(k)]
                    = drawn[i].obj.bbox[k] * canvasSize[Axis(k)] * drawn[i].at[k].d
            /\ drawn[i].at[k].n = drawn[i].obj.bbox[k] * drawn[i].at[k].d

(* A 640x480 source was redrawn on a surface that was 1280x960: the bbox   *)
(* (100,50,200,150) is at (100,50,200,150).                                *)
C8_Witness ==
    /\ last.drew
    /\ videoSize = <<640, 480>>
    /\ redraw = <<1280, 960>>
    /\ canvasSize = <<640, 480>>
    /\ \E i \in 1 .. Len(drawn) :
            /\ drawn[i].obj.bbox = <<100, 50, 200, 150>>
            /\ \A k \in 1 .. 4 :
                    /\ drawn[i].at[k].d # 0
                    /\ drawn[i].at[k].n = drawn[i].obj.bbox[k] * drawn[i].at[k].d

(* C9 as stated: on an axis whose native size is 0 the redraw divides by 1 *)
(* and its scale is 1: coordinates are drawn unchanged.                    *)
C9_ZeroAxisScaleOne ==
    last.drew =>
        \A i \in 1 .. Len(drawn) : \A k \in 1 .. 4 :
            videoSize[Axis(k)] = 0 =>
                /\ drawn[i].at[k].d = 1
                /\ drawn[i].at[k].n = drawn[i].obj.bbox[k]

(* C9: on an axis whose native size is 0 the redraw divides by 1, and the  *)
(* scale is the surface size, which the redraw has just set to 0:          *)
(* coordinates on that axis are drawn at 0.                                *)
C9_ZeroAxisScaleZero ==
    last.drew =>
        \A i \in 1 .. Len(drawn) : \A k \in 1 .. 4 :
            videoSize[Axis(k)] = 0 =>
                /\ drawn[i].at[k].d = 1
                /\ canvasSize[Axis(k)] = 0
                /\ drawn[i].at[k].n = 0

(* A redraw with objects ran while the source had no size yet.             *)
C9_Witness ==
    /\ last.drew
    /\ videoSize = <<0, 0>>
    /\ Len(drawn) > 0
    /\ drawn[1].obj.bbox[1] # 0

(* C11: when the error event and the close event of a socket have been     *)
(* handled, error is set, isConnected and isProcessing are false, the      *)
(* socket is closed and its keepalive timer is not active.                 *)
C11_FailureEndsClosed ==
    last.op = "error" =>
        /\ error # "null"
        /\ ~isConnected
        /\ ~isProcessing
        /\ sockets[last.ws].readyState = "CLOSED"
        /\ sockets[last.ws].ping # "active"

(* C12 as stated: as many sockets were constructed as startTracking was    *)
(* called.                                                                 *)
C12_OneSocketPerStart ==
    Len(sockets) = starts

(* C12: a socket is constructed only by a startTracking call, one per call *)
(* and none when the constructor throws; no handler constructs one.        *)
C12_NoReconnect ==
    /\ [](Len(sockets) = IF wsUrlOk THEN starts ELSE 0)
    /\ [][Len(sockets') # Len(sockets) =>
            /\ last'.op = "startTracking"
            /\ starts' = starts + 1
            /\ Len(sockets') = Len(sockets) + 1]_vars

(* A connection failed, the session was started again, and the second      *)
(* connection closed and its timer had fired: two sockets for two starts.  *)
C12_Witness ==
    /\ starts = 2
    /\ Len(sockets) = 2
    /\ sockets[1].readyState = "CLOSED"
    /\ sockets[2].readyState = "CLOSED"
    /\ sockets[2].wasOpen
    /\ \E i \in 1 .. Len(sent) : sent[i].type = "ping" /\ sent[i].ws = 2
    /\ error = ConnectionError

(* The message event of an Open socket, whatever its data.                 *)
Handled ==
    /\ last'.op = "message"
    /\ now' = now
    /\ last'.ws \in Sockets
    /\ sockets[last'.ws].readyState = "OPEN"

(* C13: a payload that does not parse changes nothing of the session, the  *)
(* socket stays as it is, and the results message that comes next replaces *)
(* the snapshot as ever.                                                   *)
C13_MalformedIgnored ==
    /\ [][(Handled /\ ~last'.data.parses)
            => UNCHANGED <<hookVars, refVars, sockets, sent>>]_vars
    /\ [][(Delivered /\ IsResults(last'.data)
                /\ last.op = "message" /\ ~last.data.parses)
            => trackedObjects' = last'.data.objects]_vars

(* A payload that does not parse was handled on an Open socket of a        *)
(* session that shows objects and an error: both are still there.          *)
C13_Witness ==
    /\ last.op = "message"
    /\ ~last.data.parses
    /\ sockets[last.ws].readyState = "OPEN"
    /\ isConnected /\ isProcessing
    /\ trackedObjects # <<>>
    /\ error = "boom"

(* C14: a message of type "pong" changes nothing, whatever else it holds.  *)
C14_PongIgnored ==
    [][(Handled /\ last'.data.parses /\ last'.data.type = "pong")
         => UNCHANGED <<hookVars, refVars, sockets, sent>>]_vars

(* A pong that carried objects was handled on an Open socket: the snapshot *)
(* is not the message's and nothing was counted.                           *)
C14_Witness ==
    /\ last.op = "message"
    /\ last.data.type = "pong"
    /\ last.data.hasObjects
    /\ sockets[last.ws].readyState = "OPEN"
    /\ trackedObjects # last.data.objects
    /\ frameCountRef = 0

(* C15: a keepalive timer is active only while the socket whose onopen     *)
(* started it is Open, and none is active right after stopTracking.        *)
C15_TimerOnlyWhileOpen ==
    /\ \A ws \in Sockets : sockets[ws].ping = "active" => sockets[ws].readyState = "OPEN"
    /\ last.op = "stopTracking" => \A ws \in Sockets : sockets[ws].ping # "active"

(* C16: of two frames transmitted on one socket, the later one carries a   *)
(* frame_id at least as large as the earlier one's.                        *)
C16_FrameIdMonotonic ==
    \A i, j \in 1 .. Len(sent) :
        (i < j /\ sent[i].type = "frame" /\ sent[j].type = "frame"
               /\ sent[i].ws = sent[j].ws)
            => sent[i].frame_id <= sent[j].frame_id

(* C17: a sendFrame call, transmitting or not, leaves the FPS counter, the *)
(* window start and fps as they are; only a results message moves them,    *)
(* and by what C7 says.                                                    *)
C17_FpsIgnoresOutbound ==
    /\ [][calls' # calls => UNCHANGED <<fps, frameCountRef, lastTimeRef>>]_vars
    /\ [][<<fps, frameCountRef, lastTimeRef>>' # <<fps, frameCountRef, lastTimeRef>>
            => (last'.op \in {"message", "startTracking"} /\ calls' = calls)]_vars

(* One frame was dropped and one transmitted in a session whose FPS window *)
(* had closed with one result: fps still reads 1.                          *)
C17_Witness ==
    /\ last.op = "sendFrame"
    /\ calls = 2
    /\ dropped = {1}
    /\ Len(sent) = 1
    /\ fps = 1
    /\ frameCountRef = 0

(* The overlay is mounted and was last rendered with isLive true.          *)
Live == view.mounted /\ view.isLive

(* A redraw is pending: the callback whose id animationRef holds.          *)
Pending == \E j \in 1 .. Len(rafQueue) : rafQueue[j].alive /\ rafQueue[j].held

(* C18: from the render that passes isLive = false (or unmounts the        *)
(* overlay) until the next live render, no redraw is pending and none runs. *)
C18_NotLiveNoRedraw ==
    ~Live => (rafQueue = <<>> /\ ~last.drew)

(* The overlay, which had been redrawing, has just been rendered with      *)
(* isLive false: its pending redraw is gone.                               *)
C18_Witness ==
    /\ last.op = "render"
    /\ view.mounted /\ ~view.isLive
    /\ animSet
    /\ drawn # <<>>
    /\ rafQueue = <<>>

C19_IdleTickSkipped ==
    /\ [][(~view.mounted \/ playback # "playing")
            => (calls' = calls /\ sent' = sent /\ dropped' = dropped)]_vars
    /\ [][(last'.op = "tick" /\ (~view.mounted \/ playback # "playing"))
            => UNCHANGED <<hookVars, refVars, sockets>>]_vars

(* The sampler, which had sent one frame, fired on an Open connection      *)
(* while the video was paused: still one call and one frame.               *)
C19_Witness ==
    /\ last.op = "tick"
    /\ playback = "paused"
    /\ Sampling
    /\ SessionOpen
    /\ calls = 1
    /\ Len(sent) = 1
    /\ error = "null"

(* The open event of socket last'.ws is handled in this step.             *)
Opens ==
    /\ last'.op = "open"
    /\ last'.ws \in Sockets
    /\ sockets[last'.ws].readyState = "CONNECTING"
    /\ sockets'[last'.ws].readyState = "OPEN"

(* C21: when the open event has been handled the FPS counter is 0 and the  *)
(* window starts at the time of the open event.                            *)
C21_OpenResetsFps ==
    [][Opens => (frameCountRef' = 0 /\ lastTimeRef' = now')]_vars

(* C22: once the session is Closed - it has had a socket and none is       *)
(* CONNECTING or OPEN - no step gives it a CONNECTING or OPEN socket.      *)
C22_ClosedIsTerminal ==
    [][(sockets # <<>> /\ \A ws \in Sockets : ~Active(ws))
        => \A ws \in 1 .. Len(sockets') :
                sockets'[ws].readyState \notin {"CONNECTING", "OPEN"}]_vars

(* What a keepalive tick transmits.                                        *)
Ping(ws) ==
    [ws |-> ws, type |-> "ping", image |-> "", timestamp |-> 0, frame_id |-> 0,
     call |-> 0]

(* C23: a tick of the timer that the onopen of a socket started transmits  *)
(* one ping on that socket if the socket is Open and nothing otherwise,    *)
(* and nothing else transmits a ping.                                      *)
C23_PingIffOpen ==
    /\ [][last'.op = "ping" =>
            sent' = IF sockets[last'.ws].readyState = "OPEN"
                    THEN Append(sent, Ping(last'.ws))
                    ELSE sent]_vars
    /\ [][sent' # sent => last'.op = "ping"]_vars
    /\ [](\A i \in 1 .. Len(sent) : sent[i].type = "ping" => sockets[sent[i].ws].wasOpen)

(* A timer that had sent a ping fired again after its socket had closed,   *)
(* while another socket of the session was Open: nothing more was sent.    *)
C23_Witness ==
    /\ last.op = "ping"
    /\ sockets[last.ws].readyState = "CLOSED"
    /\ sockets[last.ws].ping = "active"
    /\ sent = <<Ping(last.ws)>>
    /\ SessionOpen

(* The catch of startStream runs in this step.                             *)
Rejects ==
    /\ last'.op = "denied"
    /\ capture'.acquiring = capture.acquiring - 1

Closes ==
    /\ last'.op = "close"
    /\ last'.ws \in Sockets
    /\ sockets[last'.ws].readyState # "CLOSED"
    /\ sockets'[last'.ws].readyState = "CLOSED"

(* C25: the close event of a socket that stopTracking closed, handled      *)
(* while the socket of a later startTracking is Open, leaves isConnected,  *)
(* isProcessing and the later socket's keepalive timer as they are.        *)
C25_StaleCloseHarmless ==
    [][(Closes /\ last'.ws \in stopped /\ SessionOpen /\ wsRef > last'.ws
            /\ isConnected /\ isProcessing /\ sockets[wsRef].ping = "active")
        => (isConnected' /\ isProcessing' /\ sockets'[wsRef].ping = "active")]_vars

(* What the session shows when it is at rest.                            *)
AtRest ==
    /\ ~isConnected
    /\ ~isProcessing
    /\ trackedObjects = <<>>
    /\ fps = 0

(* stopTracking has just closed a socket that was Open.                    *)
StoppedOpen ==
    /\ last.op = "stopTracking"
    /\ last.ws # 0
    /\ sockets[last.ws].wasOpen
    /\ sockets[last.ws].readyState = "CLOSING"

(* C26: after stopTracking on an Open socket, unless startTracking is      *)
(* called again, the session comes to rest and stays at rest.              *)
C26_StopComesToRest ==
    \A n \in 0 .. MaxStarts :
        (StoppedOpen /\ starts = n) ~> ([]AtRest \/ starts > n)

(* C27 as stated: at most one sampling interval is active, and only after *)
(* a render with isTracking true and the tab "live"; and every sample was  *)
(* attempted while the session's connection was Open.                      *)
C27_SampleOnlyWhileOpen ==
    /\ intervals <= 1
    /\ intervals = 1 => (view.mounted /\ view.isLive)
    /\ dropped = {}

(* C27: at most one sampling interval is active, and one is active exactly *)
(* from a render with isTracking true and the tab "live" to the next       *)
(* render that changes either; samples are attempted only then.            *)
C27_OneSamplerPerRender ==
    /\ [](intervals <= 1)
    /\ []((intervals = 1) <=> (view.mounted /\ view.isLive))
    /\ []((frameIntervalRef = "active") <=> (intervals = 1))
    /\ [][calls' # calls => (intervals = 1 /\ view.mounted /\ view.isLive)]_vars

(* A sample was attempted after the connection had failed, then the render *)
(* that followed cleared the interval.                                     *)
C27_Witness ==
    /\ last.op = "render"
    /\ intervals = 0
    /\ frameIntervalRef = "cleared"
    /\ dropped # {}
    /\ ~isProcessing
    /\ error = ConnectionError
    /\ stopped = {}
    /\ activeTab = "live"

(* C28: at most one redraw callback is pending at any time, the pending   *)
(* callback is the draw function of the latest render and the one whose id *)
(* animationRef holds, and a redraw that runs draws the objects of the     *)
(* latest render: a superseded draw function never runs.                   *)
C28_OneRedrawPending ==
    /\ Len(rafQueue) <= 1
    /\ \A j \in 1 .. Len(rafQueue) :
            /\ rafQueue[j].alive
            /\ rafQueue[j].held
            /\ rafQueue[j].objs = view.objs
    /\ last.drew => DrawnObjs = view.objs

(* A render with new results replaced the draw function of an overlay that *)
(* had already drawn: one callback is pending, and it is the new one.      *)
C28_Witness ==
    /\ last.op = "render"
    /\ last.drew
    /\ redraw # NewCanvas
    /\ view.objs # <<>>
    /\ Len(rafQueue) = 1
    /\ rafQueue[1].objs = view.objs
    /\ DrawnObjs = view.objs

====
